---- MODULE Spec2Model ----
(***************************************************************************)
(* A model of src/server.py: GameServer, the authoritative simulation of   *)
(* a multiplayer snake game.  Three kinds of threads share the world state *)
(* (self.snakes, self.apples, self.clients) and one lock (self.lock):      *)
(*   - the game loop (game_loop / update_game / send_state),               *)
(*   - the accept thread (accept_clients),                                 *)
(*   - one handler thread per connection (handle_client).                  *)
(* A "with self.lock:" block is an action guarded by the lock being free;  *)
(* where a block is split into several steps the lock variable names its   *)
(* holder in between.                                                      *)
(*                                                                         *)
(* The grid is scaled down from the source's 40 x 30 (5 apples, spawn      *)
(* margin 5) so that walls, apples and other snakes are within a few ticks *)
(* of a spawn; the scaled values keep the relations the code relies on:    *)
(* SAFE_MARGIN >= 2 (a spawned 3-segment body lies inside the grid), a     *)
(* non-empty spawn region, and the grid center inside the spawn region.    *)
(* The 1000 attempts of find_spawn_position are scaled to 3: the world     *)
(* does not change between attempts, so any positive number of attempts    *)
(* yields the same set of possible results.                                *)
(* random.randint is a nondeterministic choice.                            *)
(***************************************************************************)
EXTENDS Integers, Sequences, FiniteSets, TLC

GRID_WIDTH == 6
GRID_HEIGHT == 5
APPLE_COUNT == 2
SAFE_MARGIN == 2
MAX_ATTEMPTS == 3

\* Bounds of the exploration.
MaxClients == 2
MaxTicks == 2

VARIABLES
    snakes,      \* self.snakes: client_id -> [body, dir, alive, grow], in insertion (= id) order
    apples,      \* self.apples: list of positions
    next_id,     \* self.next_id
    clients,     \* self.clients: list of client ids (the sockets are the ids)
    lock,        \* self.lock: "free", "tick" (game loop), "unreg" (a handler's finally block)
    pcTick,      \* game loop: "sleep", "update" (inside update_game), "send" (before send_state)
    todo,        \* update_game: the ids of list(self.snakes.items()) not yet processed
    pcAccept,    \* accept thread: "accept", "append" (snake inserted, before line 58)
    hpc,         \* handler thread of each id: "none", "recv", "rebuild" (line 118), "done"
    rebuilt,     \* the list built by the comprehension of line 118, before it is assigned
    simResult,   \* history: the world state update_game returned, until it is sent
    ticks,       \* number of completed ticks, counted up to MaxTicks
    startSnakes, \* history: self.snakes when the running tick took the lock
    respawned    \* history: ids whose snake was respawned at least once

vars == <<snakes, apples, next_id, clients, lock, pcTick, todo, pcAccept, hpc,
          rebuilt, simResult, ticks, startSnakes, respawned>>

Ids == 0 .. (MaxClients - 1)

----------------------------------------------------------------------------
\* Grid and sequences

Cells == (0 .. (GRID_WIDTH - 1)) \X (0 .. (GRID_HEIGHT - 1))

\* faulty variant: no wall on the right
InBoundsNoRightWall(p) == 0 <= p[1] /\ 0 <= p[2] /\ p[2] < GRID_HEIGHT

\* faulty variant: no wall at all
InBoundsNoWall(p) == TRUE

InBounds(p) == 0 <= p[1] /\ p[1] < GRID_WIDTH /\ 0 <= p[2] /\ p[2] < GRID_HEIGHT

Add(p, d) == <<p[1] + d[1], p[2] + d[2]>>

Neg(d) == <<0 - d[1], 0 - d[2]>>

\* "p in s" for a Python list s
InSeq(p, s) == \E i \in 1 .. Len(s) : s[i] = p

\* list.remove(p): drops the first occurrence
RemoveFirst(s, p) ==
    LET i == CHOOSE k \in 1 .. Len(s) : s[k] = p /\ \A j \in 1 .. (k - 1) : s[j] # p
    IN  SubSeq(s, 1, i - 1) \o SubSeq(s, i + 1, Len(s))

\* list.pop(): drops the last element
Pop(s) == SubSeq(s, 1, Len(s) - 1)

RECURSIVE Ascending(_)
Ascending(S) ==
    IF S = {} THEN <<>>
    ELSE LET m == CHOOSE x \in S : \A y \in S : x <= y
         IN  <<m>> \o Ascending(S \ {m})

Units == {<<1, 0>>, <<-1, 0>>, <<0, 1>>, <<0, -1>>}

----------------------------------------------------------------------------
\* Snakes

SpawnBody(pos) == <<pos, <<pos[1] - 1, pos[2]>>, <<pos[1] - 2, pos[2]>>>>

NewSnake(pos) == [body |-> SpawnBody(pos), dir |-> <<1, 0>>, alive |-> TRUE, grow |-> 0]

InAnyBody(p, sn) == \E id \in DOMAIN sn : InSeq(p, sn[id].body)


\* faulty variant: a disconnect that marks the snake dead and keeps it
RemoveSnakeMarkDead(id, sn) == [i \in DOMAIN sn |-> IF i = id THEN [sn[i] EXCEPT !.alive = FALSE] ELSE sn[i]]

\* del self.snakes[client_id] (guarded by "client_id in self.snakes")
RemoveSnake(id, sn) == [i \in DOMAIN sn \ {id} |-> sn[i]]

----------------------------------------------------------------------------
\* Spawn locator: find_spawn_position

SpawnRegion ==
    (SAFE_MARGIN .. (GRID_WIDTH - SAFE_MARGIN - 1)) \X (SAFE_MARGIN .. (GRID_HEIGHT - SAFE_MARGIN - 1))

Center == <<GRID_WIDTH \div 2, GRID_HEIGHT \div 2>>

\* faulty variant: the attempt tests the apples only
SpawnCollisionNoBodyTest(c, sn, ap) == InSeq(c, ap)

\* the "collision" flag of one attempt
SpawnCollision(c, sn, ap) == InAnyBody(c, sn) \/ InSeq(c, ap)

\* The positions the while loop can return from attempt number "attempts" on:
\* a draw that does not collide is returned; a draw that collides (possible
\* only if some candidate collides) leads to the next attempt; after
\* MAX_ATTEMPTS colliding draws the grid center is returned, unchecked.
RECURSIVE SpawnSearch(_, _, _)
SpawnSearch(attempts, free, hit) ==
    IF attempts < MAX_ATTEMPTS
    THEN free \cup (IF hit # {} THEN SpawnSearch(attempts + 1, free, hit) ELSE {})
    ELSE {Center}

find_spawn_position(sn, ap) ==
    LET hit == {c \in SpawnRegion : SpawnCollision(c, sn, ap)}
    IN  SpawnSearch(0, SpawnRegion \ hit, hit)

----------------------------------------------------------------------------
\* Initial state: GameServer.__init__

\* The positions random.randint draws for an apple (lines 33, 164) in this
\* model: two cells on the spawn row, in front of a spawned snake, and two
\* corners no snake reaches within MaxTicks, so that a draw is always free.
AppleDraws == {<<3, 2>>, <<4, 2>>, <<0, 0>>, <<5, 4>>}

\* spawn_apples: draws until APPLE_COUNT pairwise distinct positions are in the list
RECURSIVE SpawnApples(_)
SpawnApples(ap) ==
    IF Len(ap) < APPLE_COUNT
    THEN UNION {SpawnApples(Append(ap, pos)) : pos \in {c \in AppleDraws : ~InSeq(c, ap)}}
    ELSE {ap}

\* no tick is between update_game and send_state
NoResult == [apples |-> <<>>, snakes |-> <<>>]

Init ==
    /\ apples \in SpawnApples(<<>>)
    /\ snakes = <<>>
    /\ next_id = 0
    /\ clients = <<>>
    /\ lock = "free"
    /\ pcTick = "sleep"
    /\ todo = <<>>
    /\ pcAccept = "accept"
    /\ hpc = [id \in Ids |-> "none"]
    /\ rebuilt = <<>>
    /\ simResult = NoResult
    /\ ticks = 0
    /\ startSnakes = <<>>
    /\ respawned = {}

----------------------------------------------------------------------------
\* Accept thread: accept_clients

\* lines 43-56: a connection is accepted and takes the next id; under the lock
\* its snake is placed and inserted.  (Taking the id and waiting for the lock
\* touch nothing another thread reads, so the step is taken when the lock is free.)
AcceptRegister ==
    /\ pcAccept = "accept"
    /\ next_id < MaxClients
    /\ lock = "free"
    /\ next_id' = next_id + 1
    /\ \E pos \in find_spawn_position(snakes, apples) :
          snakes' = snakes @@ (next_id :> NewSnake(pos))
    /\ pcAccept' = "append"
    /\ UNCHANGED <<apples, clients, lock, pcTick, todo, hpc, rebuilt,
                   simResult, ticks, startSnakes, respawned>>

\* lines 58-59: without the lock, the connection is appended and its handler started
AcceptAppend ==
    /\ pcAccept = "append"
    /\ clients' = Append(clients, next_id - 1)
    /\ hpc' = [hpc EXCEPT ![next_id - 1] = "recv"]
    /\ pcAccept' = "accept"
    /\ UNCHANGED <<snakes, apples, next_id, lock, pcTick, todo, rebuilt,
                   simResult, ticks, startSnakes, respawned>>

----------------------------------------------------------------------------
\* Handler threads: handle_client

\* A received message.  bad: the data is not JSON, or not an object, or its
\* "dir" is not a pair (json.loads, "in"/.get or the unpacking of line 95
\* raises).  dir: the "dir" pair, NoDir when the key is absent.  respawn:
\* msg.get("respawn", False).  [dir |-> NoDir, respawn |-> FALSE] is a JSON
\* object of unknown shape.
NoDir == <<>>

\* The pairs clients send: the unit vectors and two pairs that are not, which
\* line 97 lets through like any pair that is not the inverse of the current
\* direction.
DirInputs == Units \cup {<<2, 0>>, <<-2, 0>>}

Messages(D) ==
    {[bad |-> TRUE, dir |-> NoDir, respawn |-> FALSE]}
    \cup {[bad |-> FALSE, dir |-> d, respawn |-> FALSE] : d \in D \cup {NoDir}}
    \cup {[bad |-> FALSE, dir |-> d, respawn |-> TRUE] : d \in {NoDir, <<0, 1>>}}

\* faulty variant: the intents handled without the lock
HandlerLockIgnored == TRUE

\* "with self.lock:" of line 93
HandlerLock == lock = "free"

\* faulty variant: a direction intent is stored without the test of line 97
ApplyDirNoInverseTest(sn, id, msg) ==
    IF msg.dir # NoDir /\ id \in DOMAIN sn /\ sn[id].alive
    THEN [sn EXCEPT ![id].dir = msg.dir]
    ELSE sn

\* lines 94-98: the direction intent
ApplyDir(sn, id, msg) ==
    IF /\ msg.dir # NoDir
       /\ id \in DOMAIN sn
       /\ sn[id].alive
       /\ msg.dir # Neg(sn[id].dir)
    THEN [sn EXCEPT ![id].dir = msg.dir]
    ELSE sn

\* faulty variant: a respawn intent is taken whether the snake is dead or alive
WantsRespawnAnyState(sn, id, msg) == msg.respawn /\ id \in DOMAIN sn

\* lines 100-101: the respawn intent is taken
WantsRespawn(sn, id, msg) == msg.respawn /\ id \in DOMAIN sn /\ ~sn[id].alive

\* lines 94-108: the values self.snakes can have after the locked block has
\* handled msg for session id, from snakes sn and apples ap
Handled(sn, ap, id, msg) ==
    LET afterDir == ApplyDir(sn, id, msg)
    IN  IF WantsRespawn(afterDir, id, msg)
        THEN {[afterDir EXCEPT ![id] = NewSnake(pos)] : pos \in find_spawn_position(afterDir, ap)}
        ELSE {afterDir}

\* lines 89-108, one message that raises nothing
HandleMsg(id, msg) ==
    /\ hpc[id] = "recv"
    /\ ~msg.bad
    /\ HandlerLock
    /\ snakes' \in Handled(snakes, apples, id, msg)
    /\ respawned' = IF WantsRespawn(ApplyDir(snakes, id, msg), id, msg)
                    THEN respawned \cup {id}
                    ELSE respawned
    /\ UNCHANGED <<apples, next_id, clients, lock, pcTick, todo, pcAccept, hpc,
                   rebuilt, simResult, ticks, startSnakes>>

\* lines 111-118: the finally block takes the lock, deletes the snake and builds
\* the new client list.  (Between the end of the loop and the lock the handler
\* only waits, so the step is taken when the lock is free.)
Disconnect(id) ==
    /\ lock = "free"
    /\ lock' = "unreg"
    /\ snakes' = RemoveSnake(id, snakes)
    /\ rebuilt' = SelectSeq(clients, LAMBDA c : c # id)
    /\ hpc' = [hpc EXCEPT ![id] = "rebuild"]
    /\ UNCHANGED <<apples, next_id, clients, pcTick, todo, pcAccept,
                   simResult, ticks, startSnakes, respawned>>

\* lines 89-92, 109-110: a message that raises; the exception ends the loop
HandleBad(id, msg) ==
    /\ hpc[id] = "recv"
    /\ msg.bad
    /\ Disconnect(id)

\* lines 89-91: recv returns no data (the peer closed), the loop breaks
ClientClose(id) ==
    /\ hpc[id] = "recv"
    /\ Disconnect(id)

\* line 118: the new list is assigned to self.clients, the lock released
UnregEnd(id) ==
    /\ hpc[id] = "rebuild"
    /\ clients' = rebuilt
    /\ rebuilt' = <<>>
    /\ lock' = "free"
    /\ hpc' = [hpc EXCEPT ![id] = "done"]
    /\ UNCHANGED <<snakes, apples, next_id, pcTick, todo, pcAccept,
                   simResult, ticks, startSnakes, respawned>>

----------------------------------------------------------------------------
\* Game loop: game_loop, update_game, send_state

\* faulty variant: the self test leaves out the last segment, which this move vacates
HitsSelfButTail(new_head, s) == InSeq(new_head, Pop(s.body))

\* faulty variant: no self test
HitsSelfNever(new_head, s) == FALSE

\* line 142: the new head lies in the snake's own body
HitsSelf(new_head, s) == InSeq(new_head, s.body)

\* lines 147-150: the new head lies in the body of another snake that is alive
HitsOther(cid, new_head, sn) ==
    \E ocid \in DOMAIN sn : ocid # cid /\ sn[ocid].alive /\ InSeq(new_head, sn[ocid].body)

\* faulty variant: the replacement loop without the test of line 170
AppleFreeNoAppleTest(pos, sn, ap) == ~InAnyBody(pos, sn)

\* faulty variant: the replacement loop without the test of lines 166-169
AppleFreeNoBodyTest(pos, sn, ap) == ~InSeq(pos, ap)

\* lines 164-172: a drawn position that ends the replacement loop
AppleFree(pos, sn, ap) == ~InAnyBody(pos, sn) /\ ~InSeq(pos, ap)

\* faulty variant: the tail is removed whether or not the snake grows
TailStepAlwaysPop(sn, cid) == [sn EXCEPT ![cid].body = Pop(@), ![cid].grow = 0]

\* lines 176-180: the tail is kept while the snake grows
TailStep(sn, cid) ==
    IF sn[cid].grow > 0
    THEN [sn EXCEPT ![cid].grow = @ - 1]
    ELSE [sn EXCEPT ![cid].body = Pop(@)]

\* lines 128-180: one iteration of update_game's loop, for snake cid, with
\* the positions of Draws as the possible draws of line 164
UpdateSnakeFrom(cid, Draws) ==
    LET s == snakes[cid]
        new_head == Add(s.body[1], s.dir)
    IN  IF ~s.alive
        THEN UNCHANGED <<snakes, apples>>
        ELSE IF \/ ~InBounds(new_head)
                \/ HitsSelf(new_head, s)
                \/ HitsOther(cid, new_head, snakes)
        THEN /\ snakes' = [snakes EXCEPT ![cid].alive = FALSE]
             /\ UNCHANGED apples
        ELSE LET moved == [snakes EXCEPT ![cid].body = <<new_head>> \o @]
             IN  IF InSeq(new_head, apples)
                 THEN LET rest == RemoveFirst(apples, new_head)
                          grown == [moved EXCEPT ![cid].grow = @ + 1]
                      IN  \E pos \in Draws :
                             /\ AppleFree(pos, grown, rest)
                             /\ apples' = Append(rest, pos)
                             /\ snakes' = TailStep(grown, cid)
                 ELSE /\ snakes' = TailStep(moved, cid)
                      /\ UNCHANGED apples

UpdateSnake(cid) == UpdateSnakeFrom(cid, AppleDraws)

\* lines 122-124: the sleep ends, the lock is taken, update_game lists the snakes
TickStart ==
    /\ pcTick = "sleep"
    /\ lock = "free"
    /\ lock' = "tick"
    /\ pcTick' = "update"
    /\ todo' = Ascending(DOMAIN snakes)
    /\ startSnakes' = snakes
    /\ UNCHANGED <<snakes, apples, next_id, clients, pcAccept, hpc, rebuilt,
                   simResult, ticks, respawned>>

\* the ticks of a bounded exploration
TickBegin == ticks < MaxTicks /\ TickStart

TickSnakeFrom(Draws) ==
    /\ pcTick = "update"
    /\ todo # <<>>
    /\ UpdateSnakeFrom(Head(todo), Draws)
    /\ todo' = Tail(todo)
    /\ UNCHANGED <<next_id, clients, lock, pcTick, pcAccept, hpc, rebuilt,
                   simResult, ticks, startSnakes, respawned>>

TickSnake == TickSnakeFrom(AppleDraws)

\* lines 183-191: the state message
StateOf(sn, ap) ==
    [apples |-> ap,
     snakes |-> [cid \in DOMAIN sn |-> [body |-> sn[cid].body, alive |-> sn[cid].alive]]]

\* update_game returns
TickUpdated ==
    /\ pcTick = "update"
    /\ todo = <<>>
    /\ pcTick' = "send"
    /\ simResult' = StateOf(snakes, apples)
    /\ UNCHANGED <<snakes, apples, next_id, clients, lock, todo, pcAccept, hpc,
                   rebuilt, ticks, startSnakes, respawned>>

\* lines 182-197 and the end of the "with" of line 123: the message built from
\* the world state goes to every client of self.clients, the lock is released
Snapshot == [state |-> StateOf(snakes, apples), to |-> clients]

TickSend ==
    /\ pcTick = "send"
    /\ lock' = "free"
    /\ pcTick' = "sleep"
    /\ ticks' = IF ticks < MaxTicks THEN ticks + 1 ELSE ticks
    /\ simResult' = NoResult
    /\ startSnakes' = <<>>
    /\ UNCHANGED <<snakes, apples, next_id, clients, todo, pcAccept, hpc,
                   rebuilt, respawned>>

----------------------------------------------------------------------------
\* Specifications

Step(D) ==
    \/ AcceptRegister
    \/ AcceptAppend
    \/ \E id \in Ids, msg \in Messages(D) : HandleMsg(id, msg)
    \/ \E id \in Ids, msg \in Messages(D) : HandleBad(id, msg)
    \/ \E id \in Ids : ClientClose(id)
    \/ \E id \in Ids : UnregEnd(id)
    \/ TickBegin
    \/ TickSnake
    \/ TickUpdated
    \/ TickSend

\* clients may send any direction pair
Next == Step(DirInputs)

Spec == Init /\ [][Next]_vars

\* clients send unit vectors only
NextUnit == Step(Units)

SpecUnit == Init /\ [][NextUnit]_vars

----------------------------------------------------------------------------
\* One long game: a single client that steers its snake along a closed tour
\* of the grid, any number of ticks, and apples drawn from the whole grid.
\* Every behaviour of SpecTour is a behaviour of the server: the client's
\* messages are direction intents of handle_client, the tick runs when the
\* client has steered (the client is faster than the tick period), and no
\* other connection arrives.

\* The tour visits every cell once: along row 0 to the left, then down the
\* even columns and up the odd ones (GRID_WIDTH is even).
TourDir(p) ==
    IF p[2] = 0
    THEN IF p[1] > 0 THEN <<-1, 0>> ELSE <<0, 1>>
    ELSE IF p[1] % 2 = 0
         THEN IF p[2] < GRID_HEIGHT - 1 THEN <<0, 1>> ELSE <<1, 0>>
         ELSE IF p[2] > 1 THEN <<0, -1>>
              ELSE IF p[1] < GRID_WIDTH - 1 THEN <<1, 0>> ELSE <<0, -1>>

\* the snake of client 0 heads along the tour
OnTour == 0 \in DOMAIN snakes /\ snakes[0].dir = TourDir(snakes[0].body[1])

\* lines 43-56, for the only connection of the game
TourRegister == next_id = 0 /\ AcceptRegister

\* lines 89-98: between two ticks the client sends the direction of the tour
TourSteer ==
    /\ pcTick = "sleep"
    /\ 0 \in DOMAIN snakes
    /\ ~OnTour
    /\ HandleMsg(0, [bad |-> FALSE, dir |-> TourDir(snakes[0].body[1]), respawn |-> FALSE])

\* lines 122-124: the next tick starts
TourTick == hpc[0] = "recv" /\ OnTour /\ TickStart

\* lines 128-180, the apple drawn from the whole grid
TourSnake == TickSnakeFrom(Cells)

NextTour ==
    \/ TourRegister
    \/ AcceptAppend
    \/ TourSteer
    \/ TourTick
    \/ TourSnake
    \/ TickUpdated
    \/ TickSend

SpecTour == Init /\ [][NextTour]_vars

----------------------------------------------------------------------------
\* Claims

\* C1: outside the tick's critical section the apple list holds exactly
\* APPLE_COUNT positions, pairwise distinct.
C1_AppleCount ==
    pcTick = "sleep" =>
        /\ Len(apples) = APPLE_COUNT
        /\ \A i, j \in 1 .. Len(apples) : i # j => apples[i] # apples[j]

\* an apple was eaten and replaced, and the tick is over
C1_Witness ==
    /\ pcTick = "sleep"
    /\ ticks > 0
    /\ \E id \in DOMAIN snakes : Len(snakes[id].body) > 3

\* the new head of snake a, from the world as the tick found it
StartHead(a) == Add(startSnakes[a].body[1], startSnakes[a].dir)

\* snake a dies under "bodies frozen at tick start"
DiesFrozen(a) ==
    \/ ~InBounds(StartHead(a))
    \/ InSeq(StartHead(a), startSnakes[a].body)
    \/ \E c \in DOMAIN startSnakes \ {a} :
          startSnakes[c].alive /\ InSeq(StartHead(a), startSnakes[c].body)

\* C2: the outcome of a tick does not depend on the processing order: when
\* update_game returns, a snake that was alive at tick start is dead exactly
\* if its new head left the grid, or lay in its own body, or lay in the body
\* another alive snake had at tick start.
C2_OrderIndependent ==
    pcTick = "send" =>
        \A a \in DOMAIN startSnakes :
            startSnakes[a].alive => (snakes[a].alive <=> ~DiesFrozen(a))

\* C3: two alive snakes that compute the same new head, a cell outside every
\* body at tick start, both survive the tick.
C3_SameCellTie ==
    pcTick = "send" =>
        \A a, b \in DOMAIN startSnakes :
            (/\ a # b
             /\ startSnakes[a].alive
             /\ startSnakes[b].alive
             /\ StartHead(a) = StartHead(b)
             /\ ~DiesFrozen(a)
             /\ ~DiesFrozen(b))
            => (snakes[a].alive /\ snakes[b].alive)

\* C4: every snake's direction is one of the four unit vectors.
C4_UnitDirections == \A id \in DOMAIN snakes : snakes[id].dir \in Units

\* C5: the new head a tick computes for an alive snake is never the snake's
\* second body segment.
C5_NoReversal ==
    (pcTick = "update" /\ todo # <<>>) =>
        LET s == snakes[Head(todo)]
        IN  s.alive => Add(s.body[1], s.dir) # s.body[2]

\* C6: handling a malformed message leaves the session registered and its
\* snake in the world state, unchanged.
C6_MalformedIgnored ==
    [][\A id \in Ids : \A msg \in Messages(DirInputs) :
          (msg.bad /\ HandleBad(id, msg)) =>
              /\ hpc'[id] = "recv"
              /\ id \in DOMAIN snakes'
              /\ snakes'[id] = snakes[id]]_vars

\* a step that respawns the snake of id: only a respawn makes a dead snake alive
RespawnStep(id) ==
    /\ id \in DOMAIN snakes
    /\ ~snakes[id].alive
    /\ id \in DOMAIN snakes'
    /\ snakes'[id].alive

\* after the step the snake of id is a fresh one: [p, p-(1,0), p-(2,0)], (1,0), no growth
FreshAfter(id) ==
    LET b == snakes'[id].body
    IN  /\ snakes'[id].grow = 0
        /\ snakes'[id].dir = <<1, 0>>
        /\ Len(b) = 3
        /\ b[2] = <<b[1][1] - 1, b[1][2]>>
        /\ b[3] = <<b[1][1] - 2, b[1][2]>>

Occupied(p) == InAnyBody(p, snakes) \/ InSeq(p, apples)

\* C7 as claimed: a respawned snake is fresh and its head lies on no apple
\* and in no body at the moment of placement, whatever find_spawn_position
\* went through.  (The body the respawn discards is not counted.)
C7_RespawnHeadFree ==
    [][\A id \in Ids : RespawnStep(id) =>
          /\ FreshAfter(id)
          /\ ~InSeq(snakes'[id].body[1], apples)
          /\ \A o \in DOMAIN snakes \ {id} : ~InSeq(snakes'[id].body[1], snakes[o].body)]_vars

\* C7 amended: a respawned snake is fresh, and its head lies on no apple and
\* in no body at the moment of placement unless the attempts were exhausted:
\* then some candidate was occupied and the head is the grid center.
C7_RespawnHeadFreeOrCenter ==
    [][\A id \in Ids : RespawnStep(id) =>
          /\ FreshAfter(id)
          /\ \/ ~Occupied(snakes'[id].body[1])
             \/ /\ snakes'[id].body[1] = <<GRID_WIDTH \div 2, GRID_HEIGHT \div 2>>
                /\ \E c \in SpawnRegion : Occupied(c)]_vars

\* a snake that died was respawned and is alive
C7_Witness ==
    \E id \in respawned :
        id \in DOMAIN snakes /\ snakes[id].alive /\ Len(snakes[id].body) = 3

\* C8: an apple is placed on no snake segment present at that moment and on
\* no other apple: the initial apples, and the one a tick appends.
C8_ApplePlacedFree ==
    /\ \A i \in 1 .. Len(apples) :
          /\ ~InAnyBody(apples[i], snakes)
          /\ \A j \in 1 .. (i - 1) : apples[j] # apples[i]
    /\ [][apples' # apples =>
            LET p == apples'[Len(apples')]
            IN  /\ ~InAnyBody(p, snakes')
                /\ \A i \in 1 .. (Len(apples') - 1) : apples'[i] # p]_vars

\* inside a tick, a snake has just eaten: its body is longer than at tick start
C8_Witness ==
    /\ pcTick = "update"
    /\ \E id \in DOMAIN snakes :
          Len(snakes[id].body) > Len(startSnakes[id].body)

\* C9: the snapshot send_state builds is the world state update_game
\* returned, and while update_game runs only its own loop changes the
\* snakes and the apples.
C9_SnapshotIsTickResult ==
    /\ [](pcTick = "send" => Snapshot.state = simResult)
    /\ [][pcTick = "update" => (TickSnake \/ (snakes' = snakes /\ apples' = apples))]_vars

\* a tick is between update_game and send_state while a session with a dead
\* snake and a session with an alive one could send intents
C9_Witness ==
    /\ pcTick = "send"
    /\ \E id \in DOMAIN snakes : hpc[id] = "recv" /\ ~snakes[id].alive
    /\ \E id \in DOMAIN snakes : hpc[id] = "recv" /\ snakes[id].alive

\* C10: once the disconnect path of id has run, id has no snake and the
\* snapshot a later tick builds does not contain id.
C10_GoneStaysGone ==
    \A id \in Ids :
        hpc[id] = "done" =>
            /\ id \notin DOMAIN snakes
            /\ pcTick = "send" => id \notin DOMAIN Snapshot.state.snakes

\* a tick builds a snapshot of another session's snake after a disconnect
C10_Witness ==
    /\ pcTick = "send"
    /\ \E id \in Ids : hpc[id] = "done"
    /\ DOMAIN snakes # {}

\* the iteration of update_game that processes snake cid, alive before and after it
MovesOn(cid) ==
    /\ TickSnake
    /\ cid = Head(todo)
    /\ snakes[cid].alive
    /\ snakes'[cid].alive

\* C11: growth law.  A snake that survives its iteration of a tick gets its
\* new head in front of its body; if the new head was on an apple the tail
\* stays (the body is longer by exactly 1), otherwise the tail is removed
\* (the length is unchanged); in both cases its pending growth is 0 after
\* the iteration, as it is whenever the tick is not inside an iteration.
C11_GrowthLaw ==
    /\ [](\A id \in DOMAIN snakes : snakes[id].grow = 0)
    /\ [][\A cid \in Ids : MovesOn(cid) =>
            LET new_head == Add(snakes[cid].body[1], snakes[cid].dir)
                b == snakes[cid].body
            IN  IF InSeq(new_head, apples)
                THEN /\ snakes'[cid].body = <<new_head>> \o b
                     /\ Len(snakes'[cid].body) = Len(b) + 1
                     /\ ~InSeq(new_head, SubSeq(apples', 1, Len(apples') - 1))
                ELSE /\ snakes'[cid].body = <<new_head>> \o SubSeq(b, 1, Len(b) - 1)
                     /\ Len(snakes'[cid].body) = Len(b)
                     /\ apples' = apples]_vars

\* a tick is over in which one snake ate an apple and another snake, alive,
\* ate none
C11_Witness ==
    /\ pcTick = "send"
    /\ \E a, b \in DOMAIN snakes :
          /\ a \in DOMAIN startSnakes /\ b \in DOMAIN startSnakes
          /\ snakes[a].alive /\ snakes[b].alive
          /\ Len(snakes[a].body) = Len(startSnakes[a].body) + 1
          /\ Len(snakes[b].body) = Len(startSnakes[b].body)
          /\ snakes[b].body # startSnakes[b].body

\* the iteration of update_game that processes snake cid, alive before it
Processes(cid) ==
    /\ TickSnake
    /\ cid = Head(todo)
    /\ snakes[cid].alive

\* C12: an alive snake whose next head is outside the grid is marked dead by
\* its iteration of the tick; its body, direction and pending growth and the
\* apples are as before the iteration.
C12_WallDeath ==
    [][\A cid \in Ids :
          (Processes(cid) /\ Add(snakes[cid].body[1], snakes[cid].dir) \notin Cells) =>
              /\ snakes' = [snakes EXCEPT ![cid].alive = FALSE]
              /\ apples' = apples]_vars

\* a tick is over in which a snake died of the wall: it was alive at tick
\* start, is dead, and its next head is outside the grid
C12_Witness ==
    /\ pcTick = "send"
    /\ \E id \in DOMAIN snakes :
          /\ id \in DOMAIN startSnakes
          /\ startSnakes[id].alive
          /\ ~snakes[id].alive
          /\ snakes[id].body = startSnakes[id].body
          /\ Add(snakes[id].body[1], snakes[id].dir) \notin Cells

\* C13: an alive snake whose next head is a cell of its own body, the last
\* segment included, is marked dead by its iteration of the tick and does
\* not move; nothing else changes.
C13_SelfCollision ==
    [][\A cid \in Ids :
          (/\ Processes(cid)
           /\ \E i \in 1 .. Len(snakes[cid].body) :
                 snakes[cid].body[i] = Add(snakes[cid].body[1], snakes[cid].dir)) =>
              /\ snakes' = [snakes EXCEPT ![cid].alive = FALSE]
              /\ apples' = apples]_vars

\* a tick is over in which a snake died of its own last segment: it was alive
\* at tick start, is dead, and its next head is the cell of its tail
C13_Witness ==
    /\ pcTick = "send"
    /\ \E id \in DOMAIN snakes :
          /\ id \in DOMAIN startSnakes
          /\ startSnakes[id].alive
          /\ ~snakes[id].alive
          /\ snakes[id].body = startSnakes[id].body
          /\ Add(snakes[id].body[1], snakes[id].dir) = snakes[id].body[Len(snakes[id].body)]

\* C14: every segment of every snake body is a cell of the grid.
C14_SegmentsInGrid ==
    \A id \in DOMAIN snakes :
        \A i \in 1 .. Len(snakes[id].body) :
            /\ 0 <= snakes[id].body[i][1] /\ snakes[id].body[i][1] < GRID_WIDTH
            /\ 0 <= snakes[id].body[i][2] /\ snakes[id].body[i][2] < GRID_HEIGHT

\* after a tick one snake, alive, has its head on the right border, next to
\* the wall, and another snake was respawned
C14_Witness ==
    /\ pcTick = "sleep"
    /\ ticks > 0
    /\ \E id \in DOMAIN snakes :
          snakes[id].alive /\ snakes[id].body[1][1] = GRID_WIDTH - 1
    /\ \E id \in respawned : id \in DOMAIN snakes

\* C15: a dead snake is frozen.  A step that leaves a dead snake in the
\* world (any step but its session's disconnect) leaves its body, direction,
\* pending growth and dead flag as they are, unless the step handles a
\* message of the snake's own session that carries a respawn intent.
\* Conversely, handling a respawn intent for an alive snake changes nothing:
\* no body, alive flag or pending growth, no other snake's direction, and the
\* snake's own direction only if the message carries a direction intent too
\* (the handler never touches the apples).
C15_DeadFrozen ==
    /\ [](\A id \in DOMAIN snakes :
            (snakes[id].alive /\ hpc[id] = "recv") =>
                \A d \in DirInputs \cup {NoDir} :
                    \A after \in Handled(snakes, apples, id,
                                         [bad |-> FALSE, dir |-> d, respawn |-> TRUE]) :
                        /\ DOMAIN after = DOMAIN snakes
                        /\ \A o \in DOMAIN snakes :
                              /\ after[o].body = snakes[o].body
                              /\ after[o].alive = snakes[o].alive
                              /\ after[o].grow = snakes[o].grow
                              /\ o # id => after[o].dir = snakes[o].dir
                        /\ d = NoDir => after = snakes)
    /\ [][\A id \in Ids :
            (/\ id \in DOMAIN snakes
             /\ ~snakes[id].alive
             /\ id \in DOMAIN snakes'
             /\ snakes'[id] # snakes[id]) =>
                \E d \in DirInputs \cup {NoDir} :
                    HandleMsg(id, [bad |-> FALSE, dir |-> d, respawn |-> TRUE])]_vars

\* a tick has run over a snake that was dead when it started, while
\* another snake moved, and the dead snake's session can still send intents
C15_Witness ==
    /\ pcTick = "send"
    /\ \E id, o \in DOMAIN startSnakes :
          /\ id \in DOMAIN snakes /\ o \in DOMAIN snakes
          /\ ~startSnakes[id].alive
          /\ hpc[id] = "recv"
          /\ snakes[id] = startSnakes[id]
          /\ snakes[o].body # startSnakes[o].body

\* C16: handling a direction intent that is the inverse of an alive snake's
\* current direction leaves the snake's direction, body, alive flag and
\* pending growth unchanged (and every other snake too), whether or not the
\* message carries a respawn intent as well.
C16_ReversalRejected ==
    \A id \in DOMAIN snakes :
        (snakes[id].alive /\ hpc[id] = "recv") =>
            \A r \in BOOLEAN :
                Handled(snakes, apples, id,
                        [bad |-> FALSE, respawn |-> r,
                         dir |-> <<0 - snakes[id].dir[1], 0 - snakes[id].dir[2]>>])
                    = {snakes}

\* the session of an alive snake that has turned can send the inverse of
\* the snake's direction, and the intent can be handled
C16_Witness ==
    \E id \in DOMAIN snakes :
        /\ hpc[id] = "recv"
        /\ lock = "free"
        /\ snakes[id].alive
        /\ snakes[id].dir = <<0, 1>>
        /\ \E msg \in Messages(DirInputs) : msg.dir = <<0, -1>>

\* C17: every tick that starts completes and releases the lock.  A tick
\* holds the lock from its start, so no other thread changes the world while
\* it runs: it completes exactly if each of its steps can be taken, that is,
\* if the iteration of update_game for the next snake can finish (its
\* replacement-apple search has a free cell to find) and update_game's return
\* and send_state can follow.
C17_TickCompletes ==
    /\ (pcTick = "update" /\ todo # <<>>) => ENABLED TourSnake
    /\ (pcTick = "update" /\ todo = <<>>) => ENABLED TickUpdated
    /\ pcTick = "send" => ENABLED TickSend

\* C18: when send_state runs, every session that is registered (its snake
\* inserted, its connection appended, its handler started) and has not
\* disconnected is in the clients list the snapshot goes to.
C18_RegisteredReceives ==
    pcTick = "send" =>
        \A id \in Ids : hpc[id] = "recv" => InSeq(id, Snapshot.to)

\* C19: no cell holds segments of two different alive snakes.
C19_NoOverlap ==
    \A a, b \in DOMAIN snakes :
        (a # b /\ snakes[a].alive /\ snakes[b].alive) =>
            \A i \in 1 .. Len(snakes[a].body) : \A j \in 1 .. Len(snakes[b].body) :
                snakes[a].body[i] # snakes[b].body[j]

\* C20: every snake's body has at least 3 segments and holds no cell twice.
C20_BodyShape ==
    \A id \in DOMAIN snakes :
        /\ Len(snakes[id].body) >= 3
        /\ \A i, j \in 1 .. Len(snakes[id].body) :
              i # j => snakes[id].body[i] # snakes[id].body[j]

\* after two ticks a snake that ate an apple and then turned is alive with
\* four segments, beside a snake that died
C20_Witness ==
    /\ ticks = MaxTicks
    /\ \E id, o \in DOMAIN snakes :
          /\ snakes[id].alive
          /\ Len(snakes[id].body) = 4
          /\ snakes[id].body[1][2] # snakes[id].body[4][2]
          /\ ~snakes[o].alive

====
